---- MODULE Spec2Model ----
(***************************************************************************)
(* Model of pbi_cli.cache (src/src/pbi_cli/cache.py): CacheConfig and      *)
(* CacheManager over a local directory tree.                               *)
(*                                                                         *)
(* Python values are records [k |-> kind, v |-> payload]; a Python str is  *)
(* a sequence of one-character strings, so that str comparison (sorted())  *)
(* and concatenation (f"{cache_key}.json") are computed, not assumed.      *)
(* The storage is a function from paths (sequences of names below the      *)
(* cache folder) to nodes; the cache folder itself is the path <<>>.       *)
(* Only local paths are modelled (the isinstance(..., CloudPath) branches  *)
(* belong to cloudpathlib, which is not part of the repository).           *)
(***************************************************************************)
EXTENDS Integers, Sequences, FiniteSets, TLC

VARIABLES fs, now, config, lastOp, hist, calls, procs, pbi

vars == <<fs, now, config, lastOp, hist, calls, procs, pbi>>

(***************************************************************************)
(* Bounds                                                                  *)
(***************************************************************************)
\* at most MaxCalls calls of the manager's methods in one behaviour
MaxCalls == 2
\* the run is watched from 11:59:58 to 12:00:00, so that the clock crosses
\* the minute and the hour
StartClock == 11 * 3600 + 59 * 60 + 58
EndClock == 12 * 3600
\* the clock advances at most MaxTicks seconds past StartClock
MaxTicks == EndClock - StartClock

(***************************************************************************)
(* Python str: sequences of characters, ordered by code point              *)
(***************************************************************************)
DigitChars == <<"0", "1", "2", "3", "4", "5", "6", "7", "8", "9">>

\* the characters the model uses, in code point order
Alphabet == <<"-", ".">> \o DigitChars \o <<":", "T", "_">> \o
            <<"a", "b", "c", "d", "e", "f", "g", "h", "i", "j", "k", "l", "m",
              "n", "o", "p", "q", "r", "s", "t", "u", "v", "w", "x", "y", "z">>

Ord(c) == CHOOSE i \in 1..Len(Alphabet) : Alphabet[i] = c

RECURSIVE StrLess(_, _)
\* a < b for Python str
StrLess(a, b) ==
    IF b = <<>> THEN FALSE
    ELSE IF a = <<>> THEN TRUE
    ELSE IF Head(a) = Head(b) THEN StrLess(Tail(a), Tail(b))
    ELSE Ord(Head(a)) < Ord(Head(b))

RECURSIVE IntToStr(_)
\* str(n) for n >= 0
IntToStr(n) ==
    IF n < 10 THEN <<DigitChars[n + 1]>>
    ELSE IntToStr(n \div 10) \o <<DigitChars[(n % 10) + 1]>>

\* "%02d"
Pad2(n) == <<DigitChars[((n \div 10) % 10) + 1], DigitChars[(n % 10) + 1]>>

(***************************************************************************)
(* Python values                                                           *)
(***************************************************************************)
PyNone == [k |-> "none", v |-> <<>>]
PyStr(s) == [k |-> "str", v |-> s]
PyInt(n) == [k |-> "int", v |-> <<n>>]
PyList(items) == [k |-> "list", v |-> items]
PyTuple(items) == [k |-> "tuple", v |-> items]
\* a dict is its sequence of <<key, value>> pairs, in insertion order
PyDict(pairs) == [k |-> "dict", v |-> pairs]
\* a Python set: a value json cannot encode
PySet(items) == [k |-> "set", v |-> items]

\* bool(x)
Truthy(x) ==
    CASE x.k = "none" -> FALSE
      [] x.k = "int" -> x.v # <<0>>
      [] OTHER -> x.v # <<>>

\* d[key] for a dict d that has the key
DictGet(d, key) ==
    LET i == CHOOSE j \in 1..Len(d.v) : d.v[j][1] = PyStr(key) IN d.v[i][2]

DictHas(d, key) == d.k = "dict" /\ \E j \in 1..Len(d.v) : d.v[j][1] = PyStr(key)

(***************************************************************************)
(* json.dump / json.load                                                   *)
(***************************************************************************)
RECURSIVE Serializable(_)
\* whether json.dump(x) completes (no TypeError)
Serializable(x) ==
    CASE x.k \in {"none", "str", "int"} -> TRUE
      [] x.k \in {"list", "tuple"} ->
            \A i \in 1..Len(x.v) : Serializable(x.v[i])
      [] x.k = "dict" ->
            \A i \in 1..Len(x.v) :
                /\ x.v[i][1].k \in {"str", "int", "none"}
                /\ Serializable(x.v[i][2])
      [] OTHER -> FALSE

\* the JSON member name json.dump writes for a dict key
JsonKey(key) ==
    CASE key.k = "str" -> key.v
      [] key.k = "int" -> IntToStr(key.v[1])
      [] OTHER -> <<"n", "u", "l", "l">>

RECURSIVE JsonDump(_)
\* the JSON document json.dump writes for a serializable value
JsonDump(x) ==
    CASE x.k = "none" -> [k |-> "null", v |-> <<>>]
      [] x.k = "str" -> [k |-> "string", v |-> x.v]
      [] x.k = "int" -> [k |-> "number", v |-> x.v]
      [] x.k \in {"list", "tuple"} ->
            [k |-> "array", v |-> [i \in 1..Len(x.v) |-> JsonDump(x.v[i])]]
      [] x.k = "dict" ->
            [k |-> "object",
             v |-> [i \in 1..Len(x.v) |->
                        <<JsonKey(x.v[i][1]), JsonDump(x.v[i][2])>>]]

RECURSIVE JsonLoad(_)
\* the Python value json.load builds from a JSON document
JsonLoad(j) ==
    CASE j.k = "null" -> PyNone
      [] j.k = "string" -> PyStr(j.v)
      [] j.k = "number" -> [k |-> "int", v |-> j.v]
      [] j.k = "array" -> PyList([i \in 1..Len(j.v) |-> JsonLoad(j.v[i])])
      [] j.k = "object" ->
            PyDict([i \in 1..Len(j.v) |->
                        <<PyStr(j.v[i][1]), JsonLoad(j.v[i][2])>>])

\* what is left in a file when json.dump raised part way through writing
Truncated == [k |-> "truncated", v |-> <<>>]
\* a file just created or truncated by open(path, "w")
EmptyFile == [k |-> "empty", v |-> <<>>]
\* a document written from offset 0 over a longer one: the shorter document
\* followed by the tail of the longer
Mixed == [k |-> "mixed", v |-> <<>>]

\* whether json.load reads the content of a file (no JSONDecodeError)
IsDocument(c) == c.k \in {"null", "string", "number", "array", "object"}

RECURSIVE SumSeq(_)
SumSeq(s) == IF s = <<>> THEN 0 ELSE Head(s) + SumSeq(Tail(s))

RECURSIVE DumpLen(_, _)
\* the number of characters json.dump(x, f, indent=2) writes for the document
\* j at nesting depth
DumpLen(j, depth) ==
    CASE j.k = "null" -> 4
      [] j.k = "string" -> Len(j.v) + 2
      [] j.k = "number" -> Len(IntToStr(j.v[1]))
      [] j.k = "array" ->
            IF j.v = <<>> THEN 2
            ELSE 4 + 2 * depth + 2 * (Len(j.v) - 1) +
                 SumSeq([i \in 1..Len(j.v) |->
                            2 * (depth + 1) + DumpLen(j.v[i], depth + 1)])
      [] j.k = "object" ->
            IF j.v = <<>> THEN 2
            ELSE 4 + 2 * depth + 2 * (Len(j.v) - 1) +
                 SumSeq([i \in 1..Len(j.v) |->
                            2 * (depth + 1) + Len(j.v[i][1]) + 4 +
                            DumpLen(j.v[i][2], depth + 1)])

\* the content of a file after one stream, opened with "w", wrote the
\* document doc from offset 0 and closed, the file then holding old (written
\* by another stream since this one was opened)
Overlay(doc, old) ==
    IF old = EmptyFile THEN doc
    ELSE IF IsDocument(old) /\ DumpLen(doc, 0) >= DumpLen(old, 0) THEN doc
    ELSE Mixed

(***************************************************************************)
(* Exceptions                                                              *)
(***************************************************************************)
\* no exception was raised
NoExc == "none"
\* the exceptions the calls of the manager meet, all subclasses of Exception:
\* OSError from the storage, TypeError from json.dump, JSONDecodeError from
\* json.load
OSError == "OSError"
TypeError == "TypeError"
JSONDecodeError == "JSONDecodeError"

\* the outcome of a call that raised exc to its caller
Raised(exc) == [k |-> "raise", v |-> <<exc>>]

\* the call of the operating system that fails during a call of the manager
\* (permission denied, disk full, the file removed by another process, ...)
NoFault == "none"
FaultMkdir == "mkdir"
FaultOpen == "open"
FaultWrite == "write"
FaultIterdir == "iterdir"
FaultRmtree == "rmtree"
FaultUnlink == "unlink"

(***************************************************************************)
(* The storage: pathlib.Path and shutil on a local directory tree          *)
(***************************************************************************)
DirNode == [type |-> "dir", content |-> [k |-> "dir", v |-> <<>>]]
FileNode(c) == [type |-> "file", content |-> c]

\* Path.exists()
Exists(f, p) == p \in DOMAIN f
\* Path.is_dir()
IsDir(f, p) == p \in DOMAIN f /\ f[p].type = "dir"
IsFile(f, p) == p \in DOMAIN f /\ f[p].type = "file"

\* path.parent and path.name, for a path below the cache folder
Parent(p) == SubSeq(p, 1, Len(p) - 1)
Name(p) == p[Len(p)]

Prefixes(p) == {SubSeq(p, 1, n) : n \in 0..Len(p)}
IsUnder(q, p) == Len(q) >= Len(p) /\ SubSeq(q, 1, Len(p)) = p

\* Path.iterdir(): the entries of directory p
IterDir(f, p) == {q \in DOMAIN f : Len(q) = Len(p) + 1 /\ Parent(q) = p}

\* Path.mkdir(parents=True, exist_ok=True): raises when p or one of its
\* ancestors is a file, and otherwise creates every missing directory
MkdirRaises(f, p) == \E q \in Prefixes(p) : IsFile(f, q)
Mkdir(f, p) ==
    [q \in DOMAIN f \cup Prefixes(p) |-> IF q \in DOMAIN f THEN f[q] ELSE DirNode]

\* open(p, "w"): raises when p is a directory or its parent is no directory,
\* and otherwise creates or truncates the file; WriteFile is the file once
\* the stream is closed with content c in it
OpenWriteRaises(f, p) == IsDir(f, p) \/ ~IsDir(f, Parent(p))
WriteFile(f, p, c) ==
    [q \in DOMAIN f \cup {p} |-> IF q = p THEN FileNode(c) ELSE f[q]]

\* shutil.rmtree(p): raises when p is not a directory
RmtreeRaises(f, p) == ~IsDir(f, p)
Rmtree(f, p) == [q \in {r \in DOMAIN f : ~IsUnder(r, p)} |-> f[q]]

\* Path.unlink(): raises when p is a directory (or missing)
UnlinkRaises(f, p) == ~IsFile(f, p)
Unlink(f, p) == [q \in DOMAIN f \ {p} |-> f[q]]

(***************************************************************************)
(* datetime.now() formatting                                               *)
(***************************************************************************)
\* the day of the run; the clock counts the seconds of that day
DatePrefix == <<"2", "0", "2", "4", "0", "1", "0", "1">>

\* mutant of StrfTime: "%Y%m%d_%S%M%H", the fields of the time reversed
StrfTimeSecondsFirst(t) ==
    DatePrefix \o <<"_">> \o Pad2(t % 60) \o Pad2((t \div 60) % 60) \o Pad2(t \div 3600)

\* datetime.strftime("%Y%m%d_%H%M%S") of second t of the day
StrfTime(t) ==
    DatePrefix \o <<"_">> \o Pad2(t \div 3600) \o Pad2((t \div 60) % 60) \o Pad2(t % 60)

\* datetime.isoformat() of second t of the day
IsoFormat(t) ==
    <<"2", "0", "2", "4", "-", "0", "1", "-", "0", "1", "T">> \o
    Pad2(t \div 3600) \o <<":">> \o Pad2((t \div 60) % 60) \o <<":">> \o Pad2(t % 60)

(***************************************************************************)
(* CacheManager                                                            *)
(***************************************************************************)
\* CacheManager._base_path: None when no cache folder is configured
BasePathIsNone(cfg) == ~cfg.configured

\* mutant of DisabledOrUnconfigured: the enabled switch is not consulted
OnlyUnconfigured(cfg) == BasePathIsNone(cfg)

\* the guard of save and of load (cache.py 164, 213)
DisabledOrUnconfigured(cfg) == ~cfg.enabled \/ BasePathIsNone(cfg)

\* CacheManager._get_version_timestamp, called at second t
GetVersionTimestamp(t) == StrfTime(t)

\* f"{cache_key}.json"
JsonName(cache_key) == cache_key \o <<".", "j", "s", "o", "n">>

\* the version the path is built from (cache.py 135-137)
PathVersion(cfg, version, create_version, t) ==
    IF create_version \/ (version = PyNone /\ cfg.default_versioning)
    THEN PyStr(GetVersionTimestamp(t))
    ELSE version

\* mutant of GetCachePath: the versions of a key share one file
GetCachePathSharedFile(cfg, cache_key, version, create_version, t) ==
    <<cache_key, JsonName(cache_key)>>

\* mutant of GetCachePath: the file is named after the version
GetCachePathVersionFile(cfg, cache_key, version, create_version, t) ==
    LET ver == PathVersion(cfg, version, create_version, t) IN
    IF Truthy(ver)
    THEN <<cache_key, ver.v, JsonName(ver.v)>>
    ELSE <<JsonName(cache_key)>>

\* CacheManager._get_cache_path, called at second t with a configured base
GetCachePath(cfg, cache_key, version, create_version, t) ==
    LET ver == PathVersion(cfg, version, create_version, t) IN
    IF Truthy(ver)
    THEN <<cache_key, ver.v, JsonName(cache_key)>>
    ELSE <<JsonName(cache_key)>>

\* the version argument that asks load for the most recent version
LATEST == PyStr(<<"l", "a", "t", "e", "s", "t">>)

\* the keys of the envelope (cache.py 182-188)
K_cache_key == <<"c", "a", "c", "h", "e", "_", "k", "e", "y">>
K_cached_at == <<"c", "a", "c", "h", "e", "d", "_", "a", "t">>
K_version == <<"v", "e", "r", "s", "i", "o", "n">>
K_metadata == <<"m", "e", "t", "a", "d", "a", "t", "a">>
K_data == <<"d", "a", "t", "a">>

\* mutant of CacheData: the metadata argument is dropped
CacheDataNoMetadata(cache_key, used_version, metadata, data, t) ==
    PyDict(<< <<PyStr(K_cache_key), PyStr(cache_key)>>,
              <<PyStr(K_cached_at), PyStr(IsoFormat(t))>>,
              <<PyStr(K_version), used_version>>,
              <<PyStr(K_metadata), PyDict(<<>>)>>,
              <<PyStr(K_data), data>> >>)

\* cache_data (cache.py 182-188), cached_at read at second t
CacheData(cache_key, used_version, metadata, data, t) ==
    PyDict(<< <<PyStr(K_cache_key), PyStr(cache_key)>>,
              <<PyStr(K_cached_at), PyStr(IsoFormat(t))>>,
              <<PyStr(K_version), used_version>>,
              <<PyStr(K_metadata), IF Truthy(metadata) THEN metadata ELSE PyDict(<<>>)>>,
              <<PyStr(K_data), data>> >>)

\* mutant of EnsureCacheDir: the key's directory is made afresh
EnsureCacheDirFresh(f, p) ==
    Mkdir(IF IsDir(f, Parent(p)) /\ Len(p) = 2 THEN Rmtree(f, Parent(p)) ELSE f, p)

\* CacheManager._ensure_cache_dir on a local path
EnsureCacheDir(f, p) == Mkdir(f, p)

\* used_version (cache.py 174-179), the second timestamp read at second t
UsedVersion(cfg, cache_path, t) ==
    IF cfg.default_versioning
    THEN PyStr(Name(Parent(cache_path)))
    ELSE PyStr(GetVersionTimestamp(t))

\* mutant of SaveCatches: `except TypeError`
SaveCatchesTypeError(exc) == exc = TypeError

\* mutant of SaveCatches: `except OSError`
SaveCatchesOSError(exc) == exc = OSError

\* `except Exception` of save (cache.py 200-202)
SaveCatches(exc) == exc \in {OSError, TypeError, JSONDecodeError}

\* CacheManager.save: the storage it leaves, the value it returns (or the
\* exception it raises) and whether it opened its file. The path's timestamp
\* is read at second t1, used_version and cached_at at t2; io is the call of
\* the operating system that fails.
saveWith(io, f, cfg, cache_key, data, version, metadata, t1, t2) ==
    IF DisabledOrUnconfigured(cfg)
    THEN [fs |-> f, ret |-> PyNone, opened |-> FALSE]
    ELSE
      LET cache_path == GetCachePath(cfg, cache_key, version, TRUE, t1)
          used_version == UsedVersion(cfg, cache_path, t2)
          cache_data == CacheData(cache_key, used_version, metadata, data, t2)
          f1 == EnsureCacheDir(f, Parent(cache_path))
          \* the try block (cache.py 168-198)
          try ==
            IF io = FaultMkdir \/ MkdirRaises(f, Parent(cache_path))
            THEN [fs |-> f, exc |-> OSError, opened |-> FALSE]
            ELSE IF io = FaultOpen \/ OpenWriteRaises(f1, cache_path)
            THEN [fs |-> f1, exc |-> OSError, opened |-> FALSE]
            ELSE IF ~Serializable(cache_data)
            THEN [fs |-> WriteFile(f1, cache_path, Truncated), exc |-> TypeError,
                  opened |-> TRUE]
            ELSE IF io = FaultWrite
            THEN [fs |-> WriteFile(f1, cache_path, Truncated), exc |-> OSError,
                  opened |-> TRUE]
            ELSE [fs |-> WriteFile(f1, cache_path, JsonDump(cache_data)),
                  exc |-> NoExc, opened |-> TRUE]
      IN [fs |-> try.fs,
          ret |-> IF try.exc = NoExc THEN used_version
                  ELSE IF SaveCatches(try.exc) THEN PyNone
                  ELSE Raised(try.exc),
          opened |-> try.opened]

\* save when no call of the operating system fails
save(f, cfg, cache_key, data, version, metadata, t1, t2) ==
    saveWith(NoFault, f, cfg, cache_key, data, version, metadata, t1, t2)

RECURSIVE SortedSet(_)
\* sorted(S) for a set of str
SortedSet(S) ==
    IF S = {} THEN <<>>
    ELSE LET m == CHOOSE x \in S : \A y \in S \ {x} : StrLess(x, y)
         IN <<m>> \o SortedSet(S \ {m})

Reverse(s) == [i \in 1..Len(s) |-> s[Len(s) + 1 - i]]

\* the elements of a list
Elems(s) == {s[i] : i \in 1..Len(s)}

\* mutant of SortedReverse: reverse=True forgotten
SortedAscending(S) == SortedSet(S)

\* sorted(versions, reverse=True)
SortedReverse(S) == Reverse(SortedSet(S))

\* mutant of list_versions: the enabled switch is honoured
list_versionsIfEnabled(f, cfg, cache_key) ==
    IF DisabledOrUnconfigured(cfg) THEN <<>>
    ELSE
      LET cache_dir == <<cache_key>> IN
      IF ~IsDir(f, cache_dir) THEN <<>>
      ELSE SortedReverse({Name(item) : item \in
               {i \in IterDir(f, cache_dir) :
                    IsDir(f, i) /\ Exists(f, i \o <<JsonName(cache_key)>>)}})

\* mutant of list_versions: the version directories of every key are listed
list_versionsAnyKey(f, cfg, cache_key) ==
    IF BasePathIsNone(cfg) THEN <<>>
    ELSE SortedReverse({Name(i) : i \in
             {q \in DOMAIN f : Len(q) = 2 /\ IsDir(f, q) /\ IterDir(f, q) # {}}})

\* `except Exception` of list_versions (cache.py 271-273)
ListVersionsCatches(exc) == exc \in {OSError, TypeError, JSONDecodeError}

\* mutant of list_versionsWith: every entry of the key's directory is a
\* version, plain files included
list_versionsEveryEntry(io, f, cfg, cache_key) ==
    IF BasePathIsNone(cfg) \/ ~IsDir(f, <<cache_key>>) \/ io = FaultIterdir
    THEN PyList(<<>>)
    ELSE PyList(SortedReverse({Name(item) : item \in IterDir(f, <<cache_key>>)}))

\* mutant of list_versionsWith: every subdirectory is a version, whether or
\* not it holds the file of the key
list_versionsNoFileCheck(io, f, cfg, cache_key) ==
    IF BasePathIsNone(cfg) \/ ~IsDir(f, <<cache_key>>) \/ io = FaultIterdir
    THEN PyList(<<>>)
    ELSE PyList(SortedReverse({Name(item) : item \in
                   {i \in IterDir(f, <<cache_key>>) : IsDir(f, i)}}))

\* mutant of list_versionsWith: only the newest version is kept
list_versionsNewest(io, f, cfg, cache_key) ==
    LET all == IF BasePathIsNone(cfg) \/ ~IsDir(f, <<cache_key>>) \/ io = FaultIterdir
               THEN <<>>
               ELSE SortedReverse({Name(item) : item \in
                        {i \in IterDir(f, <<cache_key>>) :
                             IsDir(f, i) /\ Exists(f, i \o <<JsonName(cache_key)>>)}})
    IN PyList(IF all = <<>> THEN <<>> ELSE <<all[1]>>)

\* CacheManager.list_versions: the list it returns, as a Python value, or the
\* exception it raises; io is the call of the operating system that fails
list_versionsWith(io, f, cfg, cache_key) ==
    IF BasePathIsNone(cfg) THEN PyList(<<>>)
    ELSE
      LET cache_dir == <<cache_key>>
          \* the try block (cache.py 254-269)
          try ==
            IF ~Exists(f, cache_dir) THEN [ret |-> <<>>, exc |-> NoExc]
            ELSE IF io = FaultIterdir \/ ~IsDir(f, cache_dir)
            THEN [ret |-> <<>>, exc |-> OSError]
            ELSE [ret |-> SortedReverse({Name(item) : item \in
                              {i \in IterDir(f, cache_dir) :
                                   IsDir(f, i) /\ Exists(f, i \o <<JsonName(cache_key)>>)}}),
                  exc |-> NoExc]
      IN IF try.exc = NoExc THEN PyList(try.ret)
         ELSE IF ListVersionsCatches(try.exc) THEN PyList(<<>>)
         ELSE Raised(try.exc)

\* list_versions when no call of the operating system fails: the versions,
\* as a sequence
list_versions(f, cfg, cache_key) == list_versionsWith(NoFault, f, cfg, cache_key).v

\* `except Exception` of list_keys (cache.py 297-299)
ListKeysCatches(exc) == exc \in {OSError, TypeError, JSONDecodeError}

\* mutant of list_keysWith: every directory of the cache folder is a key
list_keysAnyDir(io, f, cfg) ==
    IF BasePathIsNone(cfg) \/ ~IsDir(f, <<>>) \/ io = FaultIterdir THEN PyList(<<>>)
    ELSE PyList(SortedSet({Name(item) : item \in
                   {i \in IterDir(f, <<>>) : IsDir(f, i)}}))

\* CacheManager.list_keys: the list it returns, as a Python value, or the
\* exception it raises; io is the call of the operating system that fails
list_keysWith(io, f, cfg) ==
    IF BasePathIsNone(cfg) THEN PyList(<<>>)
    ELSE
      LET \* the try block (cache.py 284-295)
          try ==
            IF ~Exists(f, <<>>) THEN [ret |-> <<>>, exc |-> NoExc]
            ELSE IF io = FaultIterdir \/ ~IsDir(f, <<>>)
            THEN [ret |-> <<>>, exc |-> OSError]
            ELSE [ret |-> SortedSet({Name(item) : item \in
                              {i \in IterDir(f, <<>>) :
                                   IsDir(f, i) /\ list_versions(f, cfg, Name(i)) # <<>>}}),
                  exc |-> NoExc]
      IN IF try.exc = NoExc THEN PyList(try.ret)
         ELSE IF ListKeysCatches(try.exc) THEN PyList(<<>>)
         ELSE Raised(try.exc)

\* list_keys when no call of the operating system fails: the keys, as a
\* sequence
list_keys(f, cfg) == list_keysWith(NoFault, f, cfg).v

\* mutant of LoadCatches: `except OSError`
LoadCatchesOSError(exc) == exc = OSError

\* `except Exception` of load (cache.py 238-240)
LoadCatches(exc) == exc \in {OSError, TypeError, JSONDecodeError}

\* mutant of LatestVersion: the oldest version
LatestVersionOldest(versions) == versions[Len(versions)]

\* versions[0] (cache.py 224)
LatestVersion(versions) == versions[1]

\* CacheManager.load, called at second t: the value it returns or the
\* exception it raises; io is the call of the operating system that fails
\* (FaultOpen: the file is gone, or may not be read, once exists() has
\* answered)
loadWith(io, f, cfg, cache_key, version, t) ==
    IF DisabledOrUnconfigured(cfg) THEN PyNone
    ELSE
      LET versions == list_versions(f, cfg, cache_key)
          ver == IF version = LATEST THEN PyStr(LatestVersion(versions)) ELSE version
          cache_path == GetCachePath(cfg, cache_key, ver, FALSE, t)
          \* the try block (cache.py 218-236)
          try ==
            IF version = LATEST /\ versions = <<>> THEN [ret |-> PyNone, exc |-> NoExc]
            ELSE IF ~Exists(f, cache_path) THEN [ret |-> PyNone, exc |-> NoExc]
            ELSE IF io = FaultOpen \/ ~IsFile(f, cache_path)
            THEN [ret |-> PyNone, exc |-> OSError]
            ELSE IF ~IsDocument(f[cache_path].content)
            THEN [ret |-> PyNone, exc |-> JSONDecodeError]
            ELSE [ret |-> JsonLoad(f[cache_path].content), exc |-> NoExc]
      IN IF try.exc = NoExc THEN try.ret
         ELSE IF LoadCatches(try.exc) THEN PyNone
         ELSE Raised(try.exc)

\* load when no call of the operating system fails
load(f, cfg, cache_key, version, t) == loadWith(NoFault, f, cfg, cache_key, version, t)

\* mutant of ClearAll: the cache folder is not created again
ClearAllNoMkdir(f) ==
    IF Exists(f, <<>>) /\ ~RmtreeRaises(f, <<>>) THEN Rmtree(f, <<>>) ELSE f

\* clear(): the whole cache, on a local path (cache.py 314-328)
ClearAll(f) ==
    IF Exists(f, <<>>)
    THEN IF RmtreeRaises(f, <<>>) THEN f
         ELSE Mkdir(Rmtree(f, <<>>), <<>>)
    ELSE f

\* mutant of ClearKey: the cache folder is removed, not the key's directory
ClearKeyWholeFolder(f, cache_key) ==
    IF Exists(f, <<cache_key>>) /\ ~RmtreeRaises(f, <<>>) THEN Rmtree(f, <<>>) ELSE f

\* clear(cache_key): all versions of one key (cache.py 331-339)
ClearKey(f, cache_key) ==
    LET cache_dir == <<cache_key>> IN
    IF Exists(f, cache_dir)
    THEN IF RmtreeRaises(f, cache_dir) THEN f ELSE Rmtree(f, cache_dir)
    ELSE f

\* mutant of ClearVersion: the version directory is removed with its file
ClearVersionWithDir(f, cfg, cache_key, version, t) ==
    LET cache_path == GetCachePath(cfg, cache_key, version, FALSE, t) IN
    IF Exists(f, cache_path) THEN Rmtree(f, Parent(cache_path)) ELSE f

\* clear(cache_key, version): one version of one key (cache.py 342-345)
ClearVersion(f, cfg, cache_key, version, t) ==
    LET cache_path == GetCachePath(cfg, cache_key, version, FALSE, t) IN
    IF Exists(f, cache_path)
    THEN IF UnlinkRaises(f, cache_path) THEN f ELSE Unlink(f, cache_path)
    ELSE f

\* mutant of clearWith: without a cache_key, the version argument selects
\* what is cleared, and nothing has that version
clearWithVersionFirst(io, f, cfg, cache_key, version, t) ==
    IF BasePathIsNone(cfg) \/ (cache_key = PyNone /\ version # PyNone)
    THEN [fs |-> f, ret |-> PyNone]
    ELSE IF io # NoFault THEN [fs |-> f, ret |-> PyNone]
    ELSE [fs |-> IF cache_key = PyNone THEN ClearAll(f)
                 ELSE IF version = PyNone THEN ClearKey(f, cache_key.v)
                 ELSE ClearVersion(f, cfg, cache_key.v, version, t),
          ret |-> PyNone]

\* mutant of ClearCatches: no except clause
ClearCatchesNothing(exc) == FALSE

\* `except Exception` of clear (cache.py 347-348)
ClearCatches(exc) == exc \in {OSError, TypeError, JSONDecodeError}

\* CacheManager.clear, called at second t: the storage it leaves and None,
\* or the exception it raises. cache_key and version are Python values (None
\* or str); io is the call of the operating system that fails, before it
\* removed anything.
clearWith(io, f, cfg, cache_key, version, t) ==
    IF BasePathIsNone(cfg) THEN [fs |-> f, ret |-> PyNone]
    ELSE
      LET \* the path the call removes, and whether removing it raises
          target == IF cache_key = PyNone THEN <<>>
                    ELSE IF version = PyNone THEN <<cache_key.v>>
                    ELSE GetCachePath(cfg, cache_key.v, version, FALSE, t)
          raises == IF cache_key = PyNone \/ version = PyNone
                    THEN io = FaultRmtree \/ RmtreeRaises(f, target)
                    ELSE io = FaultUnlink \/ UnlinkRaises(f, target)
          \* the try block (cache.py 312-345)
          try ==
            IF Exists(f, target) /\ raises THEN [fs |-> f, exc |-> OSError]
            ELSE IF cache_key = PyNone THEN [fs |-> ClearAll(f), exc |-> NoExc]
            ELSE IF version = PyNone THEN [fs |-> ClearKey(f, cache_key.v), exc |-> NoExc]
            ELSE [fs |-> ClearVersion(f, cfg, cache_key.v, version, t), exc |-> NoExc]
      IN [fs |-> try.fs,
          ret |-> IF try.exc = NoExc \/ ClearCatches(try.exc) THEN PyNone
                  ELSE Raised(try.exc)]

\* clear when no call of the operating system fails: the storage it leaves
clear(f, cfg, cache_key, version, t) ==
    clearWith(NoFault, f, cfg, cache_key, version, t).fs

(***************************************************************************)
(* Inputs                                                                  *)
(***************************************************************************)
Keys == {<<"a">>, <<"b">>}

\* {"value": [{"id": "123"}]} (tests/test_cache.py 82)
DataValue ==
    PyDict(<< <<PyStr(<<"v", "a", "l", "u", "e">>),
                PyList(<< PyDict(<< <<PyStr(<<"i", "d">>),
                                      PyStr(<<"1", "2", "3">>)>> >>) >>)>> >>)
\* {"version": 2} (tests/test_cache.py 63)
DataVersion == PyDict(<< <<PyStr(K_version), PyInt(2)>> >>)
\* ("x", "y"): a tuple, which json.dump writes as an array
DataTuple == PyTuple(<<PyStr(<<"x">>), PyStr(<<"y">>)>>)
\* {"ids": {1, 2}}: holds a set, which json.dump cannot encode
DataSet == PyDict(<< <<PyStr(<<"i", "d", "s">>), PySet(<<PyInt(1), PyInt(2)>>)>> >>)

\* {"top": 1000, "expand": ["users"]} (tests/test_cache.py 83)
MetaTop ==
    PyDict(<< <<PyStr(<<"t", "o", "p">>), PyInt(1000)>>,
              <<PyStr(<<"e", "x", "p", "a", "n", "d">>),
                PyList(<<PyStr(<<"u", "s", "e", "r", "s">>)>>)>> >>)
\* {1: "x"}: an int key, which json.dump writes as the member name "1"
MetaIntKey == PyDict(<< <<PyInt(1), PyStr(<<"x">>)>> >>)

\* a caller-supplied version label
LabelV1 == PyStr(<<"v", "1">>)

\* the (cache_key, data, version, metadata) arguments of save, and the call
\* of the operating system that fails during it
SaveArgs ==
    { <<<<"a">>, DataValue, PyNone, MetaTop, NoFault>>,
      <<<<"a">>, DataVersion, PyNone, PyNone, NoFault>>,
      <<<<"a">>, DataTuple, PyNone, MetaIntKey, NoFault>>,
      <<<<"a">>, DataSet, PyNone, PyNone, NoFault>>,
      <<<<"a">>, DataVersion, LabelV1, MetaTop, NoFault>>,
      <<<<"b">>, DataVersion, PyNone, MetaTop, NoFault>>,
      <<<<"a">>, DataValue, PyNone, MetaTop, FaultMkdir>>,
      <<<<"a">>, DataValue, PyNone, MetaTop, FaultWrite>> }

Clock == StartClock..(StartClock + MaxTicks)
Stamps == {PyStr(StrfTime(t)) : t \in Clock}

\* every version argument a claim is checked for
Versions == {LATEST, PyNone, LabelV1, PyStr(<<>>), PyStr(StrfTime(StartClock - 1))} \cup Stamps

\* the (cache_key, version) arguments of load, and the call of the operating
\* system that fails during it
LoadArgs ==
    { <<<<"a">>, LATEST, NoFault>>, <<<<"a">>, PyNone, NoFault>>,
      <<<<"b">>, LATEST, NoFault>>, <<<<"b">>, LATEST, FaultOpen>> }

\* the cache_key argument of list_versions, and the call that fails
ListVersionsArgs ==
    { <<<<"a">>, NoFault>>, <<<<"b">>, NoFault>>, <<<<"b">>, FaultIterdir>> }

\* the call that fails during list_keys
ListKeysArgs == {NoFault, FaultIterdir}

\* the (cache_key, version) arguments of clear, and the call of the operating
\* system that fails during it
ClearArgs ==
    { <<PyNone, PyNone, NoFault>>, <<PyNone, PyStr(StrfTime(StartClock)), NoFault>>,
      <<PyStr(<<"a">>), PyNone, NoFault>>,
      <<PyStr(<<"a">>), PyStr(StrfTime(StartClock)), NoFault>>,
      <<PyStr(<<"b">>), PyStr(StrfTime(StartClock - 1)), NoFault>>,
      <<PyStr(<<"b">>), PyNone, FaultRmtree>> }

\* CacheConfig(cache_folder, enabled, default_versioning) (cache.py 39-53)
Configs == [configured : BOOLEAN, enabled : BOOLEAN, default_versioning : BOOLEAN]

(***************************************************************************)
(* State                                                                   *)
(*   fs      the storage under the cache folder                            *)
(*   now     the wall clock, in seconds of the day                         *)
(*   config  the CacheConfig of the manager in use                         *)
(*   lastOp  the last call made, with its arguments, the call of the       *)
(*           operating system that failed during it, its return value (or  *)
(*           the exception it raised) and whether it changed the storage   *)
(*   hist    what the saves so far did to each key, until the first clear  *)
(*   calls   the number of calls so far                                    *)
(*   procs   the callers that run at the same time: the line of save or of *)
(*           load each has reached, and the locals of its call             *)
(*   pbi     a PBIConfig: its _data and the last call made on it (its file *)
(*           is in fs)                                                     *)
(***************************************************************************)
\* a call at second t; changed tells whether it changed the storage
Op(op, cache_key, version, data, metadata, io, ret, t, changed) ==
    [op |-> op, cache_key |-> cache_key, version |-> version, data |-> data,
     metadata |-> metadata, io |-> io, ret |-> ret, t |-> t, changed |-> changed]

HistKey0 ==
    [ok |-> 0, failed |-> FALSE, written |-> {}, increasing |-> TRUE,
     lastTime |-> 0, lastData |-> PyNone]
Hist0 == [cleared |-> FALSE, k |-> [key \in Keys |-> HistKey0]]
HistCleared == [cleared |-> TRUE, k |-> [key \in Keys |-> HistKey0]]

\* the record of one more save to a key, whose path took its timestamp at
\* second t: pathVersion is the version directory of the path, opened whether
\* the file was opened for writing.
\*   ok          the number of saves that returned a version
\*   failed      whether a save returned None
\*   written     the version directories in which a save opened its file
\*   increasing  whether each successful save came a later second than the last
\*   lastTime, lastData  the second and the data of the last successful save
HistSave(h, ret, data, t, pathVersion, opened) ==
    [ok |-> IF ret # PyNone THEN h.ok + 1 ELSE h.ok,
     failed |-> h.failed \/ ret = PyNone,
     written |-> IF opened THEN h.written \cup {pathVersion} ELSE h.written,
     increasing |-> IF ret # PyNone
                    THEN h.increasing /\ (h.ok = 0 \/ h.lastTime < t)
                    ELSE h.increasing,
     lastTime |-> IF ret # PyNone THEN t ELSE h.lastTime,
     lastData |-> IF ret # PyNone THEN data ELSE h.lastData]

\* storage a run can start from: no cache folder yet, an empty one, one in
\* which an earlier run, a second before this one, saved key "b", or one
\* that holds, put there by hand, a file "a.json", the non-versioned slot of
\* key "a", and a directory "a" with nothing in it but a plain file "v1"
EmptyFolder == [q \in {<<>>} |-> DirNode]
DefaultConfig == [configured |-> TRUE, enabled |-> TRUE, default_versioning |-> TRUE]
EarlierSave ==
    save(EmptyFolder, DefaultConfig, <<"b">>, DataValue, PyNone, PyNone,
         StartClock - 1, StartClock - 1)
EarlierHist ==
    [Hist0 EXCEPT !.k[<<"b">>] =
        HistSave(@, EarlierSave.ret, DataValue, StartClock - 1,
                 StrfTime(StartClock - 1), TRUE)]

SlotEnvelope ==
    JsonDump(CacheData(<<"a">>, PyStr(StrfTime(StartClock - 1)), PyNone, DataValue,
                       StartClock - 1))
FoundFolder ==
    WriteFile(WriteFile(Mkdir(EmptyFolder, <<<<"a">>>>), <<JsonName(<<"a">>)>>, SlotEnvelope),
              <<<<"a">>, LabelV1.v>>, SlotEnvelope)

\* a PBIConfig after __init__ (config.py 37-44): _data is None, no call yet
NoPBIConfig ==
    [data |-> PyNone, op |-> "init", key |-> <<>>, value |-> PyNone,
     io |-> NoFault, exc |-> NoExc, before |-> PyNone, ret |-> PyNone]

\* the callers that run at the same time: two writers and a reader
Writers == {"w1", "w2"}
Readers == {"r"}
\* no caller runs beside the one whose calls are followed
NoProcs == [p \in Writers \cup Readers |-> [pc |-> "idle"]]

\* CacheManager.__init__ (cache.py 79-95) with any configuration, over storage
\* as it can be found
Init ==
    /\ \/ fs \in {<<>>, EmptyFolder, FoundFolder} /\ hist = Hist0
       \/ fs = EarlierSave.fs /\ hist = EarlierHist
    /\ now = StartClock
    /\ config \in Configs
    /\ lastOp = Op("init", PyNone, PyNone, PyNone, PyNone, NoFault, PyNone,
                   StartClock, FALSE)
    /\ calls = 0
    /\ procs = NoProcs
    /\ pbi = NoPBIConfig

(***************************************************************************)
(* Actions                                                                 *)
(***************************************************************************)
\* a second passes; the clock is watched while a call can still follow
Tick ==
    /\ now < StartClock + MaxTicks
    /\ calls < MaxCalls
    /\ now' = now + 1
    /\ UNCHANGED <<fs, config, lastOp, hist, calls, procs, pbi>>

\* save(cache_key, data, version, metadata); the clock may tick between the
\* timestamp of the path and the later reads of the clock
CallSave ==
    /\ calls < MaxCalls
    /\ \E a \in SaveArgs, d \in 0..1 :
          /\ now + d <= StartClock + MaxTicks
          /\ LET r == saveWith(a[5], fs, config, a[1], a[2], a[3], a[4], now, now + d)
                 cache_path == GetCachePath(config, a[1], a[3], TRUE, now)
                 pathVersion == Name(Parent(cache_path))
             IN /\ fs' = r.fs
                /\ now' = now + d
                /\ lastOp' = Op("save", PyStr(a[1]), a[3], a[2], a[4], a[5], r.ret, now,
                                r.fs # fs)
                /\ hist' = IF hist.cleared THEN hist
                           ELSE [hist EXCEPT !.k[a[1]] =
                                    HistSave(@, r.ret, a[2], now, pathVersion, r.opened)]
    /\ calls' = calls + 1
    /\ UNCHANGED <<config, procs, pbi>>

\* load(cache_key, version)
CallLoad ==
    /\ calls < MaxCalls
    /\ \E a \in LoadArgs :
          lastOp' = Op("load", PyStr(a[1]), a[2], PyNone, PyNone, a[3],
                       loadWith(a[3], fs, config, a[1], a[2], now), now, FALSE)
    /\ calls' = calls + 1
    /\ UNCHANGED <<fs, now, config, hist, procs, pbi>>

\* list_versions(cache_key)
CallListVersions ==
    /\ calls < MaxCalls
    /\ \E a \in ListVersionsArgs :
          lastOp' = Op("list_versions", PyStr(a[1]), PyNone, PyNone, PyNone, a[2],
                       list_versionsWith(a[2], fs, config, a[1]), now, FALSE)
    /\ calls' = calls + 1
    /\ UNCHANGED <<fs, now, config, hist, procs, pbi>>

\* list_keys()
CallListKeys ==
    /\ calls < MaxCalls
    /\ \E io \in ListKeysArgs :
          lastOp' = Op("list_keys", PyNone, PyNone, PyNone, PyNone, io,
                       list_keysWith(io, fs, config), now, FALSE)
    /\ calls' = calls + 1
    /\ UNCHANGED <<fs, now, config, hist, procs, pbi>>

\* clear(cache_key, version)
CallClear ==
    /\ calls < MaxCalls
    /\ \E a \in ClearArgs :
          LET r == clearWith(a[3], fs, config, a[1], a[2], now)
          IN /\ fs' = r.fs
             /\ lastOp' = Op("clear", a[1], a[2], PyNone, PyNone, a[3], r.ret, now,
                             r.fs # fs)
    /\ hist' = HistCleared
    /\ calls' = calls + 1
    /\ UNCHANGED <<now, config, procs, pbi>>

Next ==
    \/ Tick
    \/ CallSave
    \/ CallLoad
    \/ CallListVersions
    \/ CallListKeys
    \/ CallClear

Spec == Init /\ [][Next]_vars

(***************************************************************************)
(* Callers at the same time: the manager takes no lock (cache.py 149-240), *)
(* so the calls of several processes over one cache folder interleave at   *)
(* every call of the operating system. Two writers save key "b" and a      *)
(* reader loads it; each step below is one such call, or the lines between *)
(* two of them. The documents are small: the stream buffers what json.dump *)
(* writes and hands it to the file in one write when it is closed.         *)
(***************************************************************************)
\* the key the callers share
SharedKey == <<"b">>

\* the (data, version, metadata) arguments of each writer's save
WriterArgs ==
    [w \in Writers |->
        IF w = "w1" THEN <<DataValue, PyNone, MetaTop>>
        ELSE <<DataVersion, PyNone, PyNone>>]

\* the version arguments of the reader's load: "latest", the version an
\* earlier run saved, and the versions of the seconds of this run
ReaderVersions == {LATEST, PyStr(StrfTime(StartClock - 1))} \cup Stamps

\* a writer before its call; t1 and t2 are the seconds of its two readings of
\* the clock, last tells whether it was the last to write a file
Writer0 == [pc |-> "start", t1 |-> 0, t2 |-> 0, ret |-> PyNone, last |-> FALSE]

\* the reader before its call; version is its argument, ver the version it
\* resolved, expect what load returns when it runs alone at the moment of the
\* call, had whether some version of the key was complete at that moment
Reader0 ==
    [pc |-> "start", version |-> PyNone, ver |-> PyNone, ret |-> PyNone,
     expect |-> PyNone, had |-> FALSE]

\* cache_path of a writer's save (cache.py 169)
WriterPath(w) ==
    GetCachePath(config, SharedKey, WriterArgs[w][2], TRUE, procs[w].t1)

\* the document a writer's save writes (cache.py 174-188, 195)
WriterDoc(w) ==
    JsonDump(CacheData(SharedKey, UsedVersion(config, WriterPath(w), procs[w].t2),
                       WriterArgs[w][3], WriterArgs[w][1], procs[w].t2))

\* the versions of key whose file holds a whole document
CompleteVersions(f, key) ==
    {v \in Elems(list_versions(f, config, key)) :
        /\ IsFile(f, <<key, v, JsonName(key)>>)
        /\ IsDocument(f[<<key, v, JsonName(key)>>].content)}

\* a save or a load returns ret
Return(p, ret) == procs' = [procs EXCEPT ![p].pc = "done", ![p].ret = ret]

\* save, lines 164-169: the guard, and the path with its timestamp
SavePath(w) ==
    /\ procs[w].pc = "start"
    /\ IF DisabledOrUnconfigured(config)
       THEN Return(w, PyNone)
       ELSE procs' = [procs EXCEPT ![w].pc = "path", ![w].t1 = now]
    /\ UNCHANGED <<fs, now, config, lastOp, hist, calls, pbi>>

\* save, lines 174-188: used_version and the envelope, with cached_at
SaveEnvelope(w) ==
    /\ procs[w].pc = "path"
    /\ procs' = [procs EXCEPT ![w].pc = "envelope", ![w].t2 = now]
    /\ UNCHANGED <<fs, now, config, lastOp, hist, calls, pbi>>

\* save, line 191: _ensure_cache_dir(cache_path.parent)
SaveMkdir(w) ==
    /\ procs[w].pc = "envelope"
    /\ IF MkdirRaises(fs, Parent(WriterPath(w)))
       THEN Return(w, IF SaveCatches(OSError) THEN PyNone ELSE Raised(OSError))
            /\ UNCHANGED fs
       ELSE /\ fs' = EnsureCacheDir(fs, Parent(WriterPath(w)))
            /\ procs' = [procs EXCEPT ![w].pc = "mkdir"]
    /\ UNCHANGED <<now, config, lastOp, hist, calls, pbi>>

\* save, line 194: cache_path.open("w") creates the file or empties it
SaveOpen(w) ==
    /\ procs[w].pc = "mkdir"
    /\ IF OpenWriteRaises(fs, WriterPath(w))
       THEN Return(w, IF SaveCatches(OSError) THEN PyNone ELSE Raised(OSError))
            /\ UNCHANGED fs
       ELSE /\ fs' = WriteFile(fs, WriterPath(w), EmptyFile)
            /\ procs' = [procs EXCEPT ![w].pc = "open"]
    /\ UNCHANGED <<now, config, lastOp, hist, calls, pbi>>

\* save, lines 195-198: json.dump, the stream closed, used_version returned
SaveDump(w) ==
    /\ procs[w].pc = "open"
    /\ fs' = WriteFile(fs, WriterPath(w),
                       Overlay(WriterDoc(w), fs[WriterPath(w)].content))
    /\ procs' = [p \in DOMAIN procs |->
                    IF p = w
                    THEN [procs[p] EXCEPT !.pc = "done", !.last = TRUE,
                            !.ret = UsedVersion(config, WriterPath(w), procs[w].t2)]
                    ELSE IF p \in Writers THEN [procs[p] EXCEPT !.last = FALSE]
                    ELSE procs[p]]
    /\ UNCHANGED <<now, config, lastOp, hist, calls, pbi>>

\* cache_path of the reader's load (cache.py 226)
ReaderPath(r) == GetCachePath(config, SharedKey, procs[r].ver, FALSE, now)

\* load, lines 213-226: the guard, and "latest" resolved by list_versions
LoadResolve(r) ==
    /\ procs[r].pc = "start"
    /\ \E version \in ReaderVersions :
          LET versions == list_versions(fs, config, SharedKey)
              called == [procs[r] EXCEPT
                            !.version = version,
                            !.expect = load(fs, config, SharedKey, version, now),
                            !.had = CompleteVersions(fs, SharedKey) # {}]
          IN procs' = [procs EXCEPT ![r] =
                 IF DisabledOrUnconfigured(config) \/ (version = LATEST /\ versions = <<>>)
                 THEN [called EXCEPT !.pc = "done", !.ret = PyNone]
                 ELSE [called EXCEPT !.pc = "path",
                          !.ver = IF version = LATEST
                                  THEN PyStr(LatestVersion(versions)) ELSE version]]
    /\ UNCHANGED <<fs, now, config, lastOp, hist, calls, pbi>>

\* load, lines 228-229: cache_path.exists()
LoadExists(r) ==
    /\ procs[r].pc = "path"
    /\ IF Exists(fs, ReaderPath(r))
       THEN procs' = [procs EXCEPT ![r].pc = "exists"]
       ELSE Return(r, PyNone)
    /\ UNCHANGED <<fs, now, config, lastOp, hist, calls, pbi>>

\* load, lines 232-240: the file opened and read by json.load
LoadRead(r) ==
    /\ procs[r].pc = "exists"
    /\ LET exc == IF ~IsFile(fs, ReaderPath(r)) THEN OSError
                  ELSE IF ~IsDocument(fs[ReaderPath(r)].content) THEN JSONDecodeError
                  ELSE NoExc
       IN Return(r, IF exc = NoExc THEN JsonLoad(fs[ReaderPath(r)].content)
                    ELSE IF LoadCatches(exc) THEN PyNone
                    ELSE Raised(exc))
    /\ UNCHANGED <<fs, now, config, lastOp, hist, calls, pbi>>

\* enabled managers of several processes over one cache folder, which is
\* empty or holds the version of "b" an earlier run saved
InitShared ==
    /\ fs \in {EmptyFolder, EarlierSave.fs}
    /\ now = StartClock
    /\ config \in {c \in Configs : c.configured /\ c.enabled}
    /\ lastOp = Op("init", PyNone, PyNone, PyNone, PyNone, NoFault, PyNone,
                   StartClock, FALSE)
    /\ hist = Hist0
    /\ calls = 0
    /\ procs = [p \in Writers \cup Readers |-> IF p \in Writers THEN Writer0 ELSE Reader0]
    /\ pbi = NoPBIConfig

NextShared ==
    \/ Tick
    \/ \E w \in Writers : SavePath(w)
    \/ \E w \in Writers : SaveEnvelope(w)
    \/ \E w \in Writers : SaveMkdir(w)
    \/ \E w \in Writers : SaveOpen(w)
    \/ \E w \in Writers : SaveDump(w)
    \/ \E r \in Readers : LoadResolve(r)
    \/ \E r \in Readers : LoadExists(r)
    \/ \E r \in Readers : LoadRead(r)

SpecShared == InitShared /\ [][NextShared]_vars

(***************************************************************************)
(* PBIConfig (src/src/pbi_cli/config.py): the YAML configuration file      *)
(***************************************************************************)
ValueError == "ValueError"

\* CONFIG_DIR and CONFIG_FILE (config.py 17-18), below the home directory
CONFIG_DIR == <<<<".", "p", "b", "i", "_", "c", "l", "i">>>>
CONFIG_FILE == CONFIG_DIR \o <<<<"c", "o", "n", "f", "i", "g", ".", "y", "a", "m", "l">>>>

K_active_profile == <<"a", "c", "t", "i", "v", "e", "_", "p", "r", "o", "f", "i", "l", "e">>
K_profiles == <<"p", "r", "o", "f", "i", "l", "e", "s">>
K_default_output_folder ==
    <<"d", "e", "f", "a", "u", "l", "t", "_", "o", "u", "t", "p", "u", "t", "_",
      "f", "o", "l", "d", "e", "r">>

\* _get_default_config()
GetDefaultConfig ==
    PyDict(<<<<PyStr(K_active_profile), PyNone>>,
             <<PyStr(K_profiles), PyDict(<<>>)>>,
             <<PyStr(K_default_output_folder), PyNone>>>>)

RECURSIVE YamlDump(_)
\* the YAML document yaml.dump writes: a tuple gets the tag python/tuple
YamlDump(x) ==
    CASE x.k = "none" -> [k |-> "yaml_null", v |-> <<>>]
      [] x.k = "str" -> [k |-> "yaml_str", v |-> x.v]
      [] x.k = "int" -> [k |-> "yaml_int", v |-> x.v]
      [] x.k = "list" ->
            [k |-> "yaml_seq", v |-> [i \in 1..Len(x.v) |-> YamlDump(x.v[i])]]
      [] x.k = "tuple" ->
            [k |-> "yaml_python_tuple",
             v |-> [i \in 1..Len(x.v) |-> YamlDump(x.v[i])]]
      [] x.k = "dict" ->
            [k |-> "yaml_map",
             v |-> [i \in 1..Len(x.v) |->
                        <<YamlDump(x.v[i][1]), YamlDump(x.v[i][2])>>]]

RECURSIVE YamlSafe(_)
\* whether yaml.safe_load constructs the document: it knows no python tag
YamlSafe(y) ==
    CASE y.k \in {"yaml_null", "yaml_str", "yaml_int"} -> TRUE
      [] y.k = "yaml_seq" -> \A i \in 1..Len(y.v) : YamlSafe(y.v[i])
      [] y.k = "yaml_map" ->
            \A i \in 1..Len(y.v) : YamlSafe(y.v[i][1]) /\ YamlSafe(y.v[i][2])
      [] OTHER -> FALSE

RECURSIVE YamlSafeLoad(_)
\* the Python value yaml.safe_load builds from a document it constructs
YamlSafeLoad(y) ==
    CASE y.k = "yaml_null" -> PyNone
      [] y.k = "yaml_str" -> PyStr(y.v)
      [] y.k = "yaml_int" -> [k |-> "int", v |-> y.v]
      [] y.k = "yaml_seq" -> PyList([i \in 1..Len(y.v) |-> YamlSafeLoad(y.v[i])])
      [] y.k = "yaml_map" ->
            PyDict([i \in 1..Len(y.v) |->
                        <<YamlSafeLoad(y.v[i][1]), YamlSafeLoad(y.v[i][2])>>])

\* _load(): the default configuration when the file does not exist, cannot
\* be read, is empty, or holds no mapping
ConfigLoad(f) ==
    IF ~Exists(f, CONFIG_FILE) THEN GetDefaultConfig
    ELSE IF ~IsFile(f, CONFIG_FILE) THEN GetDefaultConfig
    ELSE LET c == f[CONFIG_FILE].content IN
         IF c = EmptyFile \/ c = Truncated \/ ~YamlSafe(c) THEN GetDefaultConfig
         ELSE IF YamlSafeLoad(c).k # "dict" THEN GetDefaultConfig
         ELSE YamlSafeLoad(c)

\* the data property: _data, loaded from the file when it is None
ConfigData(f, p) == IF p.data = PyNone THEN ConfigLoad(f) ELSE p.data

RECURSIVE SplitDot(_)
\* key.split(".")
SplitDot(s) ==
    IF \A i \in 1..Len(s) : s[i] # "." THEN <<s>>
    ELSE LET i == CHOOSE j \in 1..Len(s) :
                      s[j] = "." /\ \A h \in 1..(j - 1) : s[h] # "."
         IN <<SubSeq(s, 1, i - 1)>> \o SplitDot(SubSeq(s, i + 1, Len(s)))

\* d[key] = value on a dict: the key keeps its place, a new key goes last
DictSet(d, key, value) ==
    IF DictHas(d, key)
    THEN PyDict([i \in 1..Len(d.v) |->
                    IF d.v[i][1] = PyStr(key) THEN <<PyStr(key), value>> ELSE d.v[i]])
    ELSE PyDict(Append(d.v, <<PyStr(key), value>>))

RECURSIVE GetKeys(_, _, _)
\* get(): the loop over the keys, from value on
GetKeys(value, keys, default) ==
    IF keys = <<>> THEN value
    ELSE IF DictHas(value, Head(keys))
         THEN GetKeys(DictGet(value, Head(keys)), Tail(keys), default)
         ELSE default

\* get(key, default) on configuration data
ConfigGet(data, key, default) == GetKeys(data, SplitDot(key), default)

RECURSIVE SetKeys(_, _, _)
\* set(): the loop over keys[:-1] and the assignment, made in place on the
\* dict current; d is that dict afterwards, as every holder of it sees it
SetKeys(current, keys, value) ==
    IF Len(keys) = 1
    THEN [exc |-> NoExc, d |-> DictSet(current, keys[1], value)]
    ELSE IF ~DictHas(current, Head(keys))
    THEN LET r == SetKeys(PyDict(<<>>), Tail(keys), value) IN
         [exc |-> r.exc, d |-> DictSet(current, Head(keys), r.d)]
    ELSE IF DictGet(current, Head(keys)).k # "dict"
    THEN [exc |-> ValueError, d |-> current]
    ELSE LET r == SetKeys(DictGet(current, Head(keys)), Tail(keys), value) IN
         [exc |-> r.exc, d |-> DictSet(current, Head(keys), r.d)]

\* what the dict self._data refers to holds once set() has worked on
\* config = self.data.copy(): dict.copy() is shallow, so config has its own
\* top-level entries and shares every nested dict with self._data
CopyShared(data, conf, keys) ==
    IF Len(keys) > 1 /\ DictHas(data, Head(keys))
       /\ DictGet(data, Head(keys)).k = "dict"
    THEN DictSet(data, Head(keys), DictGet(conf, Head(keys)))
    ELSE data

\* what a failed yaml.dump can leave in the file opened with "w": nothing,
\* the first entries of the mapping, or text that is no YAML document
PartialDumps(conf) ==
    {EmptyFile, Truncated}
        \cup {YamlDump(PyDict(SubSeq(conf.v, 1, n))) : n \in 1..(Len(conf.v) - 1)}

\* _save(conf) with an injected failure io: the storage afterwards (one of
\* files when yaml.dump failed) and the exception raised
ConfigSave(io, f, conf) ==
    LET f1 == IF Exists(f, CONFIG_DIR) THEN f ELSE Mkdir(f, CONFIG_DIR) IN
    IF ~Exists(f, CONFIG_DIR) /\ (io = FaultMkdir \/ MkdirRaises(f, CONFIG_DIR))
    THEN [exc |-> OSError, files |-> {f}]
    ELSE IF io = FaultOpen \/ OpenWriteRaises(f1, CONFIG_FILE)
    THEN [exc |-> OSError, files |-> {f1}]
    ELSE IF io = FaultWrite
    THEN [exc |-> OSError,
          files |-> {WriteFile(f1, CONFIG_FILE, c) : c \in PartialDumps(conf)}]
    ELSE [exc |-> NoExc, files |-> {WriteFile(f1, CONFIG_FILE, YamlDump(conf))}]

\* the keys and values the calls are made with
ConfigKeys ==
    {K_active_profile,
     K_profiles \o <<".", "d">>,
     K_profiles \o <<".", "d", ".", "n">>,
     K_active_profile \o <<".", "x">>,
     <<"c", ".", "s">>}
ConfigValues ==
    {PyNone, PyStr(<<"v">>), PyTuple(<<PyStr(<<"t">>)>>)}
ConfigFaults == {NoFault, FaultMkdir, FaultOpen, FaultWrite}

\* set(key, value) (config.py 120-143)
CallConfigSet ==
    \E key \in ConfigKeys, value \in ConfigValues, io \in ConfigFaults :
        LET data == ConfigData(fs, pbi)
            r == SetKeys(data, SplitDot(key), value)
            s == ConfigSave(io, fs, r.d)
            exc == IF r.exc # NoExc THEN r.exc ELSE s.exc
        IN /\ calls < MaxCalls
           /\ calls' = calls + 1
           /\ fs' \in (IF r.exc # NoExc THEN {fs} ELSE s.files)
           /\ pbi' = [data |-> IF exc = NoExc THEN PyNone
                               ELSE CopyShared(data, r.d, SplitDot(key)),
                      op |-> "set", key |-> key, value |-> value, io |-> io,
                      exc |-> exc, before |-> ConfigGet(data, key, PyNone),
                      ret |-> PyNone]
           /\ UNCHANGED <<now, config, lastOp, hist, procs>>

\* get(key) (config.py 100-118)
CallConfigGet ==
    \E key \in ConfigKeys :
        LET data == ConfigData(fs, pbi) IN
        /\ pbi.op # "get"
        /\ pbi' = [data |-> data, op |-> "get", key |-> key, value |-> PyNone,
                   io |-> NoFault, exc |-> NoExc, before |-> PyNone,
                   ret |-> ConfigGet(data, key, PyNone)]
        /\ UNCHANGED <<fs, now, config, lastOp, hist, calls, procs>>

\* reload() (config.py 96-98)
CallConfigReload ==
    /\ pbi.op # "reload"
    /\ pbi' = [NoPBIConfig EXCEPT !.op = "reload"]
    /\ UNCHANGED <<fs, now, config, lastOp, hist, calls, procs>>

\* the configuration files a PBIConfig can find
FoundConfig ==
    DictSet(DictSet(GetDefaultConfig, K_active_profile, PyStr(<<"d">>)), K_profiles,
            PyDict(<<<<PyStr(<<"d">>),
                       PyDict(<<<<PyStr(<<"n">>), PyStr(<<"u">>)>>>>)>>>>))
ConfigFolders ==
    {EmptyFolder,
     Mkdir(EmptyFolder, CONFIG_DIR),
     Mkdir(EmptyFolder, CONFIG_FILE),
     WriteFile(Mkdir(EmptyFolder, CONFIG_DIR), CONFIG_FILE, EmptyFile),
     WriteFile(Mkdir(EmptyFolder, CONFIG_DIR), CONFIG_FILE, YamlDump(FoundConfig))}

\* PBIConfig() (config.py 37-44) over a home directory as it can be found
InitConfig ==
    /\ fs \in ConfigFolders
    /\ now = StartClock
    /\ config \in {c \in Configs : c.configured /\ c.enabled /\ c.default_versioning}
    /\ lastOp = Op("init", PyNone, PyNone, PyNone, PyNone, NoFault, PyNone,
                   StartClock, FALSE)
    /\ hist = Hist0
    /\ calls = 0
    /\ procs = NoProcs
    /\ pbi = NoPBIConfig

NextConfig ==
    \/ CallConfigSet
    \/ CallConfigGet
    \/ CallConfigReload

SpecConfig == InitConfig /\ [][NextConfig]_vars

(***************************************************************************)
(* Properties                                                              *)
(***************************************************************************)
\* what json.load reads back from what json.dump wrote for x
RoundTrip(x) == JsonLoad(JsonDump(x))

RECURSIVE JsonNative(_)
\* x is built from str-keyed dicts, lists, str, int and None only
JsonNative(x) ==
    CASE x.k \in {"none", "str", "int"} -> TRUE
      [] x.k = "list" -> \A i \in 1..Len(x.v) : JsonNative(x.v[i])
      [] x.k = "dict" ->
            \A i \in 1..Len(x.v) : x.v[i][1].k = "str" /\ JsonNative(x.v[i][2])
      [] OTHER -> FALSE

StrictlyDescending(s) == \A i \in 1..(Len(s) - 1) : StrLess(s[i + 1], s[i])

\* the last call was a save that returned a version
SaveSucceeded == lastOp.op = "save" /\ lastOp.ret # PyNone
\* this step is a call of save / of clear
SaveStep == lastOp'.op = "save" /\ calls' = calls + 1
ClearStep == lastOp'.op = "clear" /\ calls' = calls + 1

\* C1, as stated: after v = save(key, data, metadata=metadata) succeeded,
\* load(key, v) returns an envelope whose "data" equals data and whose
\* "metadata" equals metadata. Fails: metadata=None is stored as {}, a tuple
\* is read back as a list and an int key as a str, and with
\* default_versioning off v need not name the directory written.
C1_RoundTripAsStated ==
    SaveSucceeded =>
        LET e == load(fs, config, lastOp.cache_key.v, lastOp.ret, now) IN
        /\ e # PyNone
        /\ DictGet(e, K_data) = lastOp.data
        /\ DictGet(e, K_metadata) = lastOp.metadata

\* C1, amended: after v = save(key, data, metadata=metadata) succeeded, and
\* provided v names the version directory written (always so with
\* default_versioning on; with it off only when both timestamps of the save
\* fell in the same second), load(key, v) returns an envelope whose "data" is
\* data as JSON reads it back and whose "metadata" is `metadata or {}` as JSON
\* reads it back; these equal data and metadata when they are built from
\* str-keyed dicts, lists, str, int and None, and metadata is not empty.
C1_RoundTrip ==
    (SaveSucceeded /\ (config.default_versioning \/ lastOp.ret.v = StrfTime(lastOp.t))) =>
        LET e == load(fs, config, lastOp.cache_key.v, lastOp.ret, now) IN
        /\ e # PyNone
        /\ DictGet(e, K_data) = RoundTrip(lastOp.data)
        /\ DictGet(e, K_metadata) =
              RoundTrip(IF Truthy(lastOp.metadata) THEN lastOp.metadata ELSE PyDict(<<>>))
        /\ JsonNative(lastOp.data) => DictGet(e, K_data) = lastOp.data
        /\ (JsonNative(lastOp.metadata) /\ Truthy(lastOp.metadata)) =>
              DictGet(e, K_metadata) = lastOp.metadata

\* a save of JSON data with metadata succeeded and is read back under its version
C1_Witness ==
    /\ SaveSucceeded
    /\ lastOp.data = DataValue
    /\ lastOp.metadata = MetaTop
    /\ load(fs, config, lastOp.cache_key.v, lastOp.ret, now) # PyNone
    /\ DictGet(load(fs, config, lastOp.cache_key.v, lastOp.ret, now), K_metadata) = MetaTop

\* C2: after N >= 1 successful saves to one key, each a later second than the
\* one before (and nothing else done to the key), load(key, "latest") on the
\* enabled manager returns the envelope of the last save: its "data" is the
\* data of the last save as JSON reads it back, which is that data itself
\* when it is built from str-keyed dicts, lists, str, int and None.
C2_LatestIsLastSave ==
    \A key \in Keys :
        LET h == hist.k[key] IN
        (/\ config.enabled /\ config.configured
         /\ ~hist.cleared /\ h.ok >= 1 /\ ~h.failed /\ h.increasing) =>
            LET e == load(fs, config, key, LATEST, now) IN
            /\ e # PyNone
            /\ DictGet(e, K_data) = RoundTrip(h.lastData)
            /\ JsonNative(h.lastData) => DictGet(e, K_data) = h.lastData

\* two saves to one key in different seconds, across the turn of the hour
C2_Witness ==
    \E key \in Keys :
        /\ config.enabled /\ config.configured
        /\ ~hist.cleared /\ hist.k[key].ok = 2 /\ ~hist.k[key].failed
        /\ hist.k[key].increasing
        /\ hist.k[key].lastTime = StartClock + 2
        /\ Len(list_versions(fs, config, key)) = 2
        /\ load(fs, config, key, LATEST, now) # PyNone

\* C3, as stated (for keys no save to which failed): without a clear,
\* list_versions(key) is sorted strictly descending and its length equals the
\* number of successful saves to the key. Fails: two saves in one second
\* write the same version directory.
C3_LengthIsSaveCount ==
    \A key \in Keys :
        (config.configured /\ ~hist.cleared /\ ~hist.k[key].failed) =>
            /\ StrictlyDescending(list_versions(fs, config, key))
            /\ Len(list_versions(fs, config, key)) = hist.k[key].ok

\* C3, amended: without a clear, list_versions(key) is sorted strictly
\* descending and holds exactly the version directories in which a save to the
\* key opened its file, one per second: while no save to the key failed its
\* length is at most the number of successful saves, and equal to it when
\* each save came a later second than the one before.
C3_VersionListing ==
    \A key \in Keys :
        LET h == hist.k[key]
            vs == list_versions(fs, config, key)
        IN (config.configured /\ ~hist.cleared) =>
            /\ StrictlyDescending(vs)
            /\ Elems(vs) = h.written
            /\ ~h.failed => Len(vs) <= h.ok
            /\ (~h.failed /\ h.increasing) => Len(vs) = h.ok

\* two successful saves to one key in the same second: one version listed
C3_Witness ==
    \E key \in Keys :
        /\ config.configured /\ ~hist.cleared
        /\ hist.k[key].ok = 2 /\ ~hist.k[key].failed
        /\ Len(list_versions(fs, config, key)) = 1

\* C4: a save to key_a leaves, for every other key key_b, list_versions(key_b)
\* and load(key_b, v) for every v ("latest" included), at any one time of the
\* clock, as they were.
C4_Isolation ==
    [][SaveStep =>
         \A key_b \in Keys \ {lastOp'.cache_key.v} :
            /\ list_versions(fs', config, key_b) = list_versions(fs, config, key_b)
            /\ \A v \in Versions, t \in Clock :
                  load(fs', config, key_b, v, t) = load(fs, config, key_b, v, t)]_vars

\* a save to "a" succeeded while "b" holds a version
C4_Witness ==
    /\ SaveSucceeded
    /\ lastOp.cache_key = PyStr(<<"a">>)
    /\ list_versions(fs, config, <<"b">>) # <<>>
    /\ load(fs, config, <<"b">>, LATEST, now) # PyNone

\* C5: with enabled=False or cache_folder=None, save returns None and leaves
\* the storage as it was, and load returns None for every key and version.
C5_DisabledNoOp ==
    /\ []((~config.enabled \/ ~config.configured) =>
            \A key \in Keys, v \in Versions : load(fs, config, key, v, now) = PyNone)
    /\ [][((~config.enabled \/ ~config.configured) /\ SaveStep) =>
            (lastOp'.ret = PyNone /\ fs' = fs)]_vars

\* a disabled manager over a cache folder that holds a version: save was
\* called and load finds nothing
C5_Witness ==
    /\ ~config.enabled /\ config.configured
    /\ lastOp.op = "save" /\ lastOp.ret = PyNone
    /\ list_versions(fs, config, <<"b">>) # <<>>

\* C6, as stated: with enabled=False and a cache folder set, list_versions
\* and list_keys return nothing and clear leaves the storage as it was, as on
\* an unconfigured manager. Fails: only save and load consult the switch.
C6_SwitchCoversAll ==
    (~config.enabled /\ config.configured) =>
        /\ \A key \in Keys : list_versions(fs, config, key) = <<>>
        /\ list_keys(fs, config) = <<>>
        /\ \A a \in ClearArgs : clear(fs, config, a[1], a[2], now) = fs

\* C6, amended: with enabled=False and a cache folder set, save and load
\* behave as on an unconfigured manager (None, the storage as it was), while
\* list_versions, list_keys and clear do not consult the switch: they list
\* and delete what the storage holds, as on an enabled manager.
C6_SwitchCoversSaveLoad ==
    /\ []((~config.enabled /\ config.configured) =>
            /\ \A key \in Keys, v \in Versions : load(fs, config, key, v, now) = PyNone
            /\ \A key \in Keys :
                  /\ list_versions(fs, config, key) =
                        list_versions(fs, [config EXCEPT !.enabled = TRUE], key)
                  /\ ~hist.cleared => Elems(list_versions(fs, config, key)) = hist.k[key].written
            /\ list_keys(fs, config) = list_keys(fs, [config EXCEPT !.enabled = TRUE]))
    /\ [][(~config.enabled /\ config.configured) =>
            /\ SaveStep => (lastOp'.ret = PyNone /\ fs' = fs)
            /\ ClearStep =>
                  fs' = clearWith(lastOp'.io, fs, [config EXCEPT !.enabled = TRUE],
                                  lastOp'.cache_key, lastOp'.version, now).fs]_vars

\* a disabled manager lists the version an earlier run saved
C6_Witness ==
    /\ ~config.enabled /\ config.configured
    /\ lastOp.op = "list_versions"
    /\ lastOp.ret # PyList(<<>>)
    /\ list_keys(fs, config) # <<>>

\* C7: clear(cache_key=X), when the storage does not fail, leaves
\* list_versions(X) == [] and X not in list_keys(), every other key keeps its
\* versions and their envelopes, and the same call again changes nothing.
C7_ClearKey ==
    [][(ClearStep /\ lastOp'.cache_key # PyNone /\ lastOp'.version = PyNone
          /\ lastOp'.io = NoFault) =>
         LET X == lastOp'.cache_key.v IN
         /\ list_versions(fs', config, X) = <<>>
         /\ X \notin Elems(list_keys(fs', config))
         /\ \A other \in Keys \ {X} :
               /\ list_versions(fs', config, other) = list_versions(fs, config, other)
               /\ \A v \in Versions :
                     load(fs', config, other, v, now) = load(fs, config, other, v, now)
         /\ clear(fs', config, PyStr(X), PyNone, now) = fs']_vars

\* clear("a") removed the versions of "a" while "b" holds one
C7_Witness ==
    /\ lastOp.op = "clear" /\ lastOp.cache_key = PyStr(<<"a">>) /\ lastOp.version = PyNone
    /\ lastOp.changed
    /\ list_versions(fs, config, <<"a">>) = <<>>
    /\ list_keys(fs, config) = << <<"b">> >>

\* C8: clear() on a configured cache, when the storage does not fail, leaves
\* list_keys() == [], the cache folder that existed still exists, and a save
\* that follows (of data json can encode, on an enabled manager) succeeds.
C8_ClearAll ==
    [][(ClearStep /\ lastOp'.cache_key = PyNone /\ lastOp'.version = PyNone
          /\ lastOp'.io = NoFault /\ config.configured) =>
         /\ list_keys(fs', config) = <<>>
         /\ Exists(fs, <<>>) => IsDir(fs', <<>>)
         /\ \A a \in SaveArgs :
               (config.enabled /\ Serializable(a[2]) /\ Serializable(a[4])) =>
                  save(fs', config, a[1], a[2], a[3], a[4], now, now).ret # PyNone]_vars

\* clear() emptied a cache folder that held keys
C8_Witness ==
    /\ lastOp.op = "clear" /\ lastOp.cache_key = PyNone /\ lastOp.version = PyNone
    /\ lastOp.changed
    /\ config.configured /\ config.enabled
    /\ IsDir(fs, <<>>)
    /\ list_keys(fs, config) = <<>>

\* C9, as stated: with default_versioning=False, after a successful save(k, .)
\* without explicit version exactly one file exists for k, at
\* <cache_folder>/<k>.json, and it holds the data of that save. Fails: save
\* asks _get_cache_path for create_version=True, so the path is versioned.
C9_NonVersionedSingleFile ==
    (SaveSucceeded /\ ~config.default_versioning /\ lastOp.version = PyNone) =>
        LET k == lastOp.cache_key.v
            files == {p \in DOMAIN fs :
                        IsFile(fs, p) /\ (p = <<JsonName(k)>> \/ IsUnder(p, <<k>>))}
        IN /\ files = {<<JsonName(k)>>}
           /\ fs[<<JsonName(k)>>].content # Truncated
           /\ DictGet(JsonLoad(fs[<<JsonName(k)>>].content), K_data) = RoundTrip(lastOp.data)

\* C10, as stated: a successful save(key, data, version=v) with a non-empty v
\* writes <cache_folder>/<key>/<v>/<key>.json, returns v, and load(key, v)
\* returns that envelope. Fails: create_version=True replaces v by a timestamp.
C10_ExplicitVersion ==
    (SaveSucceeded /\ Truthy(lastOp.version)) =>
        LET k == lastOp.cache_key.v IN
        /\ lastOp.ret = lastOp.version
        /\ IsFile(fs, <<k, lastOp.version.v, JsonName(k)>>)
        /\ load(fs, config, k, lastOp.version, now) # PyNone
        /\ DictGet(load(fs, config, k, lastOp.version, now), K_data) = RoundTrip(lastOp.data)

\* C11, as stated: after every successful save, under either setting of
\* default_versioning, the version returned names the version directory
\* written and is the envelope's "version", so that load(key, returned)
\* returns the envelope just saved. Fails with default_versioning=False when
\* the clock ticks between the path's timestamp and the second one returned.
C11_ReturnedVersionAddresses ==
    SaveSucceeded =>
        LET k == lastOp.cache_key.v
            e == load(fs, config, k, lastOp.ret, now)
        IN /\ IsFile(fs, <<k, lastOp.ret.v, JsonName(k)>>)
           /\ e # PyNone
           /\ DictGet(e, K_version) = lastOp.ret
           /\ DictGet(e, K_data) = RoundTrip(lastOp.data)

\* the version directories in the storage
VersionDirs == {p \in DOMAIN fs : Len(p) = 2 /\ IsDir(fs, p)}

\* the top-level fields of the envelope (cache.py 182-188)
EnvelopeFields == <<K_cache_key, K_cached_at, K_version, K_metadata, K_data>>

\* C12: in versioned mode, while every save succeeded (and nothing was
\* cleared), every version directory <key>/<version>/ holds exactly one entry,
\* the file <key>.json, and that file holds an envelope with the fields
\* cache_key (equal to key), cached_at, version, metadata and data.
C12_Layout ==
    (/\ config.default_versioning
     /\ ~hist.cleared /\ \A key \in Keys : ~hist.k[key].failed) =>
        \A p \in VersionDirs :
            LET file == p \o <<p[1] \o <<".", "j", "s", "o", "n">>>> IN
            /\ IterDir(fs, p) = {file}
            /\ IsFile(fs, file)
            /\ fs[file].content.k = "object"
            /\ LET e == JsonLoad(fs[file].content) IN
               /\ [i \in 1..Len(e.v) |-> e.v[i][1]] =
                     [i \in 1..Len(EnvelopeFields) |-> PyStr(EnvelopeFields[i])]
               /\ DictGet(e, K_cache_key) = PyStr(p[1])

\* two successful saves in versioned mode left two version directories of "a",
\* beside the one of "b"
C12_Witness ==
    /\ config.default_versioning
    /\ ~hist.cleared /\ \A key \in Keys : ~hist.k[key].failed
    /\ hist.k[<<"a">>].ok = 2
    /\ Cardinality({p \in VersionDirs : p[1] = <<"a">>}) = 2
    /\ Cardinality(VersionDirs) = 3

\* a value a call returned, as opposed to an exception it raised
Returned(x) == x.k # "raise"

\* C13: save never raises on a storage failure: when making the directory or
\* writing the file fails, save returns None.
C13_SaveAbsorbsIO ==
    lastOp.op = "save" =>
        /\ Returned(lastOp.ret)
        /\ lastOp.io # NoFault => lastOp.ret = PyNone

\* the write failed part way (disk full): save returned None
C13_Witness ==
    /\ lastOp.op = "save" /\ lastOp.io = FaultWrite
    /\ ~DisabledOrUnconfigured(config)
    /\ lastOp.changed
    /\ lastOp.ret = PyNone

\* the last call was a save, on an enabled manager and with working storage,
\* of data json.dump cannot encode
SaveUnserializable ==
    /\ lastOp.op = "save" /\ lastOp.io = NoFault
    /\ ~DisabledOrUnconfigured(config)
    /\ ~Serializable(lastOp.data)

\* C14, as stated: save(key, data) with a payload that is not JSON-encodable
\* raises a caller-visible error. Fails: `except Exception` catches the
\* TypeError of json.dump too.
C14_SerializationRaises == SaveUnserializable => ~Returned(lastOp.ret)

\* C14, amended: save(key, data) with a payload that is not JSON-encodable
\* does not raise either: it returns None, and leaves the file it had opened,
\* <key>/<timestamp>/<key>.json, with the part of the document written so far.
C14_SerializationAbsorbed ==
    SaveUnserializable =>
        LET k == lastOp.cache_key.v IN
        /\ lastOp.ret = PyNone
        /\ IsFile(fs, <<k, StrfTime(lastOp.t), JsonName(k)>>)
        /\ fs[<<k, StrfTime(lastOp.t), JsonName(k)>>].content = Truncated

\* a save of {"ids": {1, 2}} returned None
C14_Witness ==
    /\ SaveUnserializable
    /\ lastOp.data = DataSet
    /\ lastOp.ret = PyNone
    /\ lastOp.changed

\* C15: load never raises: for a missing key, a missing version, a file that
\* is not valid JSON, or a file that cannot be opened once exists() has
\* answered, load returns None.
C15_LoadNeverRaises ==
    /\ lastOp.op = "load" =>
          /\ Returned(lastOp.ret)
          /\ lastOp.io # NoFault => lastOp.ret = PyNone
    /\ \A key \in Keys, v \in Versions :
          LET r == load(fs, config, key, v, now)
              file == <<key, v.v, JsonName(key)>>
          IN /\ Returned(r)
             /\ (v = LATEST /\ ~IsDir(fs, <<key>>)) => r = PyNone
             /\ (v # LATEST /\ Truthy(v)) =>
                   /\ ~Exists(fs, file) => r = PyNone
                   /\ (IsFile(fs, file) /\ fs[file].content = Truncated) => r = PyNone

\* load("b", "latest") found the file of the version but could not open it
C15_Witness ==
    /\ lastOp.op = "load" /\ lastOp.io = FaultOpen
    /\ ~DisabledOrUnconfigured(config)
    /\ load(fs, config, lastOp.cache_key.v, lastOp.version, now) # PyNone
    /\ lastOp.ret = PyNone

\* C16, as stated: load(key, version=None) returns the envelope stored in
\* <cache_folder>/<key>.json if that file exists and None otherwise, whatever
\* the default_versioning setting. Fails with default_versioning=True, where
\* _get_cache_path replaces None by the timestamp of the current second.
C16_NoneAddressesSlot ==
    (/\ lastOp.op = "load" /\ lastOp.version = PyNone /\ lastOp.io = NoFault
     /\ ~DisabledOrUnconfigured(config)) =>
        LET slot == <<JsonName(lastOp.cache_key.v)>> IN
        lastOp.ret = IF IsFile(fs, slot) THEN JsonLoad(fs[slot].content) ELSE PyNone

\* the keys with a version directory that holds the file of the key
KeysWithVersion ==
    {q[1] : q \in {p \in DOMAIN fs :
                     /\ Len(p) = 3 /\ IsDir(fs, <<p[1], p[2]>>)
                     /\ p[3] = p[1] \o <<".", "j", "s", "o", "n">>}}

\* C17: list_keys() returns, in ascending order, exactly the names of the
\* directories k of the cache folder for which list_versions(k) is non-empty:
\* the keys with a version directory holding their file. An empty directory
\* and a key with only the non-versioned file are not returned.
C17_ListKeys ==
    config.configured =>
        LET ks == list_keys(fs, config) IN
        /\ \A i \in 1..(Len(ks) - 1) : StrLess(ks[i], ks[i + 1])
        /\ Elems(ks) = {Name(p) : p \in {q \in DOMAIN fs :
                            /\ Len(q) = 1 /\ IsDir(fs, q)
                            /\ list_versions(fs, config, Name(q)) # <<>>}}
        /\ Elems(ks) = KeysWithVersion

\* "b" is listed; "a", a directory without versions beside the file a.json,
\* is not
C17_Witness ==
    /\ config.configured
    /\ IsDir(fs, <<<<"a">>>>) /\ IsFile(fs, <<JsonName(<<"a">>)>>)
    /\ list_keys(fs, config) = << <<"b">> >>

\* C18: list_versions, list_keys and clear never raise: on an unconfigured
\* cache, or when listing or removing fails, list_versions and list_keys
\* return an empty list and clear returns None.
C18_ListClearNeverRaise ==
    lastOp.op \in {"list_versions", "list_keys", "clear"} =>
          /\ Returned(lastOp.ret)
          /\ (lastOp.io # NoFault \/ ~config.configured) =>
                lastOp.ret = IF lastOp.op = "clear" THEN PyNone ELSE PyList(<<>>)

\* clear("b") found the directory of "b" and could not remove it
C18_Witness ==
    /\ lastOp.op = "clear" /\ lastOp.io = FaultRmtree
    /\ config.configured
    /\ IsDir(fs, <<lastOp.cache_key.v>>)
    /\ lastOp.ret = PyNone

\* the versions of key whose file exists, and those whose file is an envelope
FileVersions(key) ==
    {p[2] : p \in {q \in VersionDirs : q[1] = key /\ Exists(fs, q \o <<JsonName(key)>>)}}
ReadableVersions(key) ==
    {v \in FileVersions(key) :
        /\ IsFile(fs, <<key, v, JsonName(key)>>)
        /\ fs[<<key, v, JsonName(key)>>].content # Truncated}
\* the maximum of a non-empty set of str
MaxStr(S) == CHOOSE m \in S : \A x \in S \ {m} : StrLess(x, m)

NoValidVersion(key) ==
    /\ IsDir(fs, <<key>>)
    /\ \A sub \in IterDir(fs, <<key>>) :
          ~(IsDir(fs, sub) /\ Exists(fs, sub \o <<JsonName(key)>>))

\* C20: a key whose directory holds no valid version (it is empty, or holds
\* only subdirectories without the file of the key) gives what the same
\* storage without that directory gives: list_versions(key) is [], key is not
\* in list_keys(), and load(key, v) is the same for every v, None for every v
\* that addresses a version directory (a non-empty v, or None in versioned
\* mode).
C20_EmptyKeyAsMissing ==
    \A key \in Keys :
        (config.configured /\ NoValidVersion(key)) =>
            LET g == Rmtree(fs, <<key>>) IN
            /\ list_versions(fs, config, key) = <<>>
            /\ list_versions(g, config, key) = <<>>
            /\ key \notin Elems(list_keys(fs, config))
            /\ list_keys(fs, config) = list_keys(g, config)
            /\ \A v \in Versions, t \in Clock :
                  /\ load(fs, config, key, v, t) = load(g, config, key, v, t)
                  /\ (Truthy(v) \/ (v = PyNone /\ config.default_versioning)) =>
                        load(fs, config, key, v, t) = PyNone

\* clear("a", v) removed the only file of "a": its directory holds a version
\* directory without the file
C20_Witness ==
    /\ ~DisabledOrUnconfigured(config)
    /\ lastOp.op = "clear" /\ lastOp.changed
    /\ NoValidVersion(<<"a">>)
    /\ IterDir(fs, <<<<"a">>>>) # {}

\* C21: list_versions(key) returns a name v, once, if and only if
\* <cache_folder>/<key>/<v> is a directory that contains the file <key>.json;
\* subdirectories without that file and plain files in the key's directory
\* are not returned.
C21_ValidVersions ==
    config.configured =>
        \A key \in Keys :
            LET vs == list_versions(fs, config, key) IN
            /\ Elems(vs) = {Name(d) : d \in
                    {q \in DOMAIN fs :
                        /\ Len(q) = 2 /\ q[1] = key /\ IsDir(fs, q)
                        /\ IsFile(fs, q \o <<JsonName(key)>>)}}
            /\ Cardinality(Elems(vs)) = Len(vs)
            /\ \A q \in IterDir(fs, <<key>>) :
                  (IsFile(fs, q) \/ IterDir(fs, q) = {}) => Name(q) \notin Elems(vs)

\* the directory of "a" holds a plain file and a version directory whose file
\* clear("a", v) removed, and no version of "a" is listed
C21_Witness ==
    /\ config.configured
    /\ lastOp.op = "clear" /\ lastOp.changed
    /\ \E q \in IterDir(fs, <<<<"a">>>>) : IsFile(fs, q)
    /\ \E q \in IterDir(fs, <<<<"a">>>>) : IsDir(fs, q) /\ IterDir(fs, q) = {}
    /\ list_versions(fs, config, <<"a">>) = <<>>

\* C22: clear(key, v) with both arguments, when the storage does not fail,
\* deletes exactly the file of version v of key: the storage loses the file
\* <key>/<v>/<key>.json and nothing else, v is no longer in
\* list_versions(key), every other version of key is listed and loaded (under
\* its name) as before, every other key is unchanged, and the version
\* directory, now empty, is left in place. The same holds of such a call for any version of
\* any key made in place of the one observed.
C22_ClearVersion ==
    [][(ClearStep /\ lastOp'.cache_key # PyNone /\ Truthy(lastOp'.version)
          /\ lastOp'.io = NoFault /\ config.configured) =>
         /\ fs' = clear(fs, config, lastOp'.cache_key, lastOp'.version, now)
         /\ \A key \in Keys, v \in Versions \ {PyNone, PyStr(<<>>)} :
               LET g == clear(fs, config, PyStr(key), v, now)
                   file == <<key, v.v, JsonName(key)>>
                   before == list_versions(fs, config, key)
                   after == list_versions(g, config, key)
               IN /\ DOMAIN fs \ DOMAIN g = IF IsFile(fs, file) THEN {file} ELSE {}
                  /\ \A p \in DOMAIN g : p \in DOMAIN fs /\ g[p] = fs[p]
                  /\ v.v \notin Elems(after)
                  /\ Elems(after) = Elems(before) \ {v.v}
                  /\ IsDir(fs, <<key, v.v>>) => IsDir(g, <<key, v.v>>)
                  /\ \A w \in Versions \ {v, LATEST, PyNone} :
                        load(g, config, key, w, now) = load(fs, config, key, w, now)
                  /\ \A other \in Keys \ {key} :
                        /\ list_versions(g, config, other) = list_versions(fs, config, other)
                        /\ \A w \in Versions :
                              load(g, config, other, w, now) = load(fs, config, other, w, now)]_vars

\* clear("b", v) removed the file of the older version of "b": its directory
\* is left empty and the newer version is still listed
C22_Witness ==
    /\ config.configured
    /\ lastOp.op = "clear" /\ lastOp.cache_key = PyStr(<<"b">>) /\ lastOp.changed
    /\ Truthy(lastOp.version)
    /\ IsDir(fs, <<<<"b">>, lastOp.version.v>>)
    /\ IterDir(fs, <<<<"b">>, lastOp.version.v>>) = {}
    /\ Len(list_versions(fs, config, <<"b">>)) = 1

\* C23, as stated: with versioning active, every successful save creates a
\* version that did not exist before, and no save changes the file stored
\* under an existing version. Fails: the version is the second of the clock,
\* so a save in the second of an existing version of the key writes to that
\* version's file.
C23_AppendOnly ==
    [][(SaveStep /\ config.default_versioning) =>
         LET key == lastOp'.cache_key.v IN
         /\ lastOp'.ret # PyNone =>
               Elems(list_versions(fs', config, key)) \
                   Elems(list_versions(fs, config, key)) # {}
         /\ \A p \in DOMAIN fs : IsFile(fs, p) => (IsFile(fs', p) /\ fs'[p] = fs[p])]_vars

\* C23, amended: a save changes no entry of the storage but the file of the
\* version named after the second at which it is made: a successful save in a
\* second for which the key has no version yet adds exactly that version; a
\* successful save in the second of an existing version of the key adds no
\* version and replaces that version's envelope by its own.
C23_AppendPerSecond ==
    [][SaveStep =>
         LET key == lastOp'.cache_key.v
             cache_path == GetCachePath(config, key, lastOp'.version, TRUE, now)
             ver == Name(Parent(cache_path))
             before == Elems(list_versions(fs, config, key))
             after == Elems(list_versions(fs', config, key))
         IN /\ \A p \in DOMAIN fs \ {cache_path} : p \in DOMAIN fs' /\ fs'[p] = fs[p]
            /\ lastOp'.ret # PyNone =>
                  /\ after = before \cup {ver}
                  /\ IsFile(fs', cache_path)
                  /\ DictGet(JsonLoad(fs'[cache_path].content), K_data) =
                        RoundTrip(lastOp'.data)]_vars

\* a second successful save to "a" within one second replaced the envelope of
\* the first: one version is listed and it holds the data of the second save
C23_Witness ==
    /\ config.default_versioning
    /\ SaveSucceeded /\ lastOp.cache_key = PyStr(<<"a">>) /\ lastOp.data = DataVersion
    /\ ~hist.cleared /\ hist.k[<<"a">>].ok = 2 /\ ~hist.k[<<"a">>].increasing
    /\ list_versions(fs, config, <<"a">>) = <<lastOp.ret.v>>
    /\ DictGet(load(fs, config, <<"a">>, lastOp.ret, now), K_data) = DataVersion

\* C26: no automatic eviction or expiration: a step that is no clear (a
\* save, a load, a listing, or a second passing) leaves every version that
\* list_versions(key) returns among those it returns afterwards.
C26_NoEviction ==
    [][~ClearStep =>
         \A key \in Keys :
            Elems(list_versions(fs, config, key)) \subseteq
                Elems(list_versions(fs', config, key))]_vars

\* a save to "a" in a later second left the older version of "a" listed
\* beside its own
C26_Witness ==
    /\ config.configured /\ ~hist.cleared
    /\ SaveSucceeded /\ lastOp.cache_key = PyStr(<<"a">>)
    /\ lastOp.t > StartClock
    /\ Len(list_versions(fs, config, <<"a">>)) = 2
    /\ list_versions(fs, config, <<"a">>)[2] = StrfTime(StartClock)

\* this step is a save that opened its file for writing and returned None
FailedAfterOpen ==
    /\ SaveStep /\ lastOp'.ret = PyNone
    /\ saveWith(lastOp'.io, fs, config, lastOp'.cache_key.v, lastOp'.data,
                lastOp'.version, lastOp'.metadata, now, now').opened

\* C28, as stated: a save that returns None after its file was opened for
\* writing leaves list_versions(key), list_keys() and load(key, "latest") as
\* they were before it. Fails: the file it opened stays, holding part of a
\* document, and its directory is a version from then on.
C28_FailedSaveInvisible ==
    [][FailedAfterOpen =>
         LET key == lastOp'.cache_key.v IN
         /\ list_versions(fs', config, key) = list_versions(fs, config, key)
         /\ list_keys(fs', config) = list_keys(fs, config)
         /\ load(fs', config, key, LATEST, now') = load(fs, config, key, LATEST, now)]_vars

\* C29: clear(cache_key=None, version=v) ignores the version argument: for
\* every v it leaves what clear() leaves, a cache folder without keys. Checked
\* of the call made and of every version argument in its place.
C29_ClearAllIgnoresVersion ==
    [][(ClearStep /\ lastOp'.cache_key = PyNone /\ config.configured) =>
         /\ fs' = clearWith(lastOp'.io, fs, config, PyNone, PyNone, now).fs
         /\ lastOp'.io = NoFault => list_keys(fs', config) = <<>>
         /\ \A v \in Versions, io \in {NoFault, FaultRmtree} :
               clearWith(io, fs, config, PyNone, v, now) =
                   clearWith(io, fs, config, PyNone, PyNone, now)]_vars

\* clear(None, v) with a version emptied a cache folder that held a key
C29_Witness ==
    /\ config.configured
    /\ lastOp.op = "clear" /\ lastOp.cache_key = PyNone /\ Truthy(lastOp.version)
    /\ lastOp.changed
    /\ fs = EmptyFolder

\* both writers returned a version
BothSaved ==
    \A w \in Writers : procs[w].pc = "done" /\ procs[w].ret # PyNone

\* C24, as stated: two writers saving one key with auto-generated versions
\* write to the same path only if both timestamps fall in the same second; then
\* the later write replaces the earlier and one version remains; otherwise
\* both versions exist afterwards, each with its own data. Fails: both streams
\* write from offset 0, so the shorter document written last leaves the tail
\* of the longer behind it.
C24_WritersCollide ==
    BothSaved =>
        LET p1 == WriterPath("w1")
            p2 == WriterPath("w2")
            later == CHOOSE w \in Writers : procs[w].last
            listed == Elems(list_versions(fs, config, SharedKey))
        IN /\ p1 = p2 => procs["w1"].t1 = procs["w2"].t1
           /\ p1 = p2 =>
                 /\ fs[p1].content = WriterDoc(later)
                 /\ Cardinality(listed \cap {Name(Parent(p1)), Name(Parent(p2))}) = 1
           /\ p1 # p2 =>
                 /\ fs[p1].content = WriterDoc("w1")
                 /\ fs[p2].content = WriterDoc("w2")
                 /\ {Name(Parent(p1)), Name(Parent(p2))} \subseteq listed

\* C25: a load of an explicit version v of a key, made while saves write
\* other versions of the key, returns at every interleaving what it returns
\* when it runs alone: the envelope of v, or None if v has no file.
C25_ReaderOfOtherVersion ==
    LET r == procs["r"] IN
    (/\ r.pc = "done" /\ r.version # LATEST
     /\ \A w \in Writers :
           procs[w].pc \notin {"idle", "start"} => Name(Parent(WriterPath(w))) # r.version.v) =>
        /\ r.ret = r.expect
        /\ r.ret = load(fs, config, SharedKey, r.version, now)

\* the reader got the envelope of the earlier version while a writer had the
\* file of another version open, not yet written
C25_Witness ==
    LET r == procs["r"] IN
    /\ r.pc = "done" /\ r.version = PyStr(StrfTime(StartClock - 1))
    /\ r.ret # PyNone
    /\ DictGet(r.ret, K_data) = DataValue
    /\ \E w \in Writers :
          /\ procs[w].pc = "open"
          /\ fs[WriterPath(w)].content = EmptyFile

\* C27, as stated: a load(K, "latest") made while a save to K is in progress
\* returns the envelope of a complete version (the one latest before, or the
\* new one): it never returns None when a complete version of K exists, and
\* never a partial envelope. Fails: list_versions lists the new version as
\* soon as its file is created, and the file, still empty, does not parse.
C27_LatestDuringSave ==
    LET r == procs["r"] IN
    (r.pc = "done" /\ r.version = LATEST /\ r.had) =>
        /\ r.ret # PyNone
        /\ DictHas(r.ret, K_data)

\* C30: PBIConfig.set is all-or-nothing on one instance: right after a
\* set(key, value) that failed (ValueError, or an error while the file was
\* written), get(key) returns what it returned before the call, for top-level
\* and dotted keys alike; after one that succeeded, get(key) returns value.
C30_SetAllOrNothing ==
    pbi.op = "set" =>
        ConfigGet(ConfigData(fs, pbi), pbi.key, PyNone) =
            (IF pbi.exc # NoExc THEN pbi.before ELSE pbi.value)

====
